---- MODULE Spec2Model ----
(***************************************************************************)
(* Schema nodes of highcharts: NumericAxis (axes/numeric.py), the bar      *)
(* family (plot_options/bar.py), BoxPlotOptions (plot_options/boxplot.py)  *)
(* and VennOptions (plot_options/venn.py): validated attribute setters,    *)
(* construction from keyword initializers, and conversion to and from the  *)
(* camelCase wire mapping.                                                 *)
(*                                                                         *)
(* A Python value is a record with the same six fields whatever its type:  *)
(*   t      the type: None, bool, int, float, inf, str, dict, list, obj,   *)
(*          EnforcedNull                                                   *)
(*   n      bool: 0/1; int: the number; float: the number in tenths (0.1   *)
(*          is 1, 5.0 is 50); dict/obj: how many keys/attributes are set   *)
(*   s      str: the text; dict: the class the mapping describes; obj: the *)
(*          class of the instance                                          *)
(*   k      the structural marker keys a str contains / a dict holds / an  *)
(*          obj emits on the wire                                          *)
(*   wf     str/dict: whether it parses as the structure its markers name  *)
(*   items  list: the elements                                             *)
(***************************************************************************)
EXTENDS Integers, Sequences, FiniteSets, TLC

VARIABLES node, wire, err, last, sets

vars == <<node, wire, err, last, sets>>

\* ------------------------------------------------------------------ values

Val(t, n, s, k, wf, items) ==
    [t |-> t, n |-> n, s |-> s, k |-> k, wf |-> wf, items |-> items]

None == Val("None", 0, "", {}, FALSE, <<>>)
PyBool(b) == Val("bool", IF b THEN 1 ELSE 0, "", {}, FALSE, <<>>)
PyInt(i) == Val("int", i, "", {}, FALSE, <<>>)
PyFloat(tenths) == Val("float", tenths, "", {}, FALSE, <<>>)
Inf == Val("inf", 0, "", {}, FALSE, <<>>)
PyStr(s) == Val("str", 0, s, {}, FALSE, <<>>)
MarkedStr(s, k, wf) == Val("str", 0, s, k, wf, <<>>)
PyDict(cls, k, wf, n) == Val("dict", n, cls, k, wf, <<>>)
PyList(items) == Val("list", 0, "", {}, FALSE, items)
PyObj(cls, k, n) == Val("obj", n, cls, k, TRUE, <<>>)
EnforcedNull == Val("EnforcedNull", 0, "", {}, FALSE, <<>>)

\* Python truthiness: `not value`
Falsy(v) ==
    \/ v.t = "None"
    \/ v.t \in {"bool", "int", "float"} /\ v.n = 0
    \/ v.t = "str" /\ v.s = ""
    \/ v.t = "list" /\ v.items = <<>>
    \/ v.t = "dict" /\ v.k = {} /\ v.n = 0

\* The text of a str that float() accepts, as tenths
NumericText(s) == s \in {"5", "-5"}
FloatOfText(s) == IF s = "5" THEN 50 ELSE IF s = "-5" THEN -50 ELSE 0

\* --------------------------------------------------------------- results
\* What a call leaves behind: the value it returns, or the exception raised.

OK == "ok"
Ret(v) == [val |-> v, err |-> OK]
Raise(e, v) == [val |-> v, err |-> e]

\* ----------------------------------------------- validation primitives
\* validator_collection.validators, by the contract of spec section 6.
\* EmptyValueError, MinimumValueError and NotAnIntegerError are ValueErrors;
\* CannotCoerceError and NotAnIterableError are TypeErrors.

validators_string(value, allow_empty) ==
    IF Falsy(value)
    THEN IF allow_empty THEN Ret(None) ELSE Raise("ValueError", None)
    ELSE IF value.t # "str" THEN Raise("TypeError", None)
    ELSE Ret(value)

validators_numeric(value, allow_empty, has_minimum) ==
    IF value.t = "None"
    THEN IF allow_empty THEN Ret(None) ELSE Raise("ValueError", None)
    ELSE IF value.t = "str"
    THEN IF ~NumericText(value.s) THEN Raise("TypeError", None)
         ELSE IF has_minimum /\ FloatOfText(value.s) < 0
         THEN Raise("ValueError", None)
         ELSE Ret(PyFloat(FloatOfText(value.s)))
    ELSE IF value.t = "inf" THEN Ret(value)
    ELSE IF value.t \notin {"int", "float", "bool"} THEN Raise("TypeError", None)
    ELSE IF has_minimum /\ value.n < 0 THEN Raise("ValueError", None)
    ELSE Ret(value)

validators_integer(value, allow_empty, has_minimum) ==
    LET r == validators_numeric(value, allow_empty, has_minimum)
    IN  IF r.err # OK \/ r.val.t \in {"None", "int", "bool"} THEN r
        ELSE IF r.val.t = "float" /\ r.val.n % 10 = 0 THEN Ret(PyInt(r.val.n \div 10))
        ELSE Raise("ValueError", None)

validators_iterable(value) ==
    IF Falsy(value) THEN Raise("ValueError", None)
    ELSE IF value.t = "str" THEN Raise("TypeError", None)
    ELSE IF value.t # "list" THEN Raise("TypeError", None)
    ELSE Ret(value)

\* The assignment stores whatever the validator handed back, error or not
Assign_unconditional(old, r) == r

\* `self._x = <call>`: the field is written only when the call returns.
Assign(old, r) == IF r.err = OK THEN r ELSE Raise(r.err, old)

\* ------------------------------------------ collaborators outside src/
\* Gradient and Pattern (utility_classes), the class_sensitive/validate_types
\* decorators, utility_functions.validate_color, constants and trim_dict are
\* code of the repository that is not among the source files: they are
\* modelled from spec sections 4.1, 4.2 and 4.4.

GradientMarkers == {"linearGradient", "linear_gradient", "radialGradient"}
PatternMarkers == {"patternOptions", "pattern_options"}

SUPPORTED_DASH_STYLE_VALUES ==
    {"Dash", "DashDot", "Dot", "LongDash", "LongDashDot", "LongDashDotDot",
     "ShortDash", "ShortDashDot", "ShortDashDotDot", "ShortDot", "Solid"}

\* The marker a Gradient or Pattern instance emits on the wire
CamelMarker(m) ==
    CASE m = "linear_gradient" -> "linearGradient"
      [] m = "pattern_options" -> "patternOptions"
      [] OTHER -> m
CamelMarkers(k) == {CamelMarker(m) : m \in k}

ClassOfMarkers(k) ==
    IF k \cap GradientMarkers # {} THEN "Gradient"
    ELSE IF k \cap PatternMarkers # {} THEN "Pattern"
    ELSE ""

\* cls.from_json(value): a JSON text of the class parses, anything else fails
from_json(cls, value) ==
    IF value.t = "str" /\ value.wf /\ ClassOfMarkers(value.k) = cls
    THEN Ret(PyObj(cls, CamelMarkers(value.k), 1))
    ELSE Raise("ValueError", None)

\* cls.from_dict(value) and cls(**value): a well-formed mapping of the class
from_dict_of(cls, value) ==
    IF value.t = "dict" /\ value.wf /\ value.s = cls
    THEN Ret(PyObj(cls, CamelMarkers(value.k), value.n))
    ELSE Raise("ValueError", None)

validate_types(value, types) ==
    IF Falsy(value) THEN Ret(None)
    ELSE IF value.t = "obj" /\ value.s \in types THEN Ret(value)
    ELSE IF value.t = "dict" /\ value.s \in types THEN from_dict_of(value.s, value)
    ELSE IF value.t = "str" /\ ClassOfMarkers(value.k) \in types
    THEN from_json(ClassOfMarkers(value.k), value)
    ELSE Raise("ValueError", None)

\* The first exception of a sequence of results, or the list of their values
Collect(rs) ==
    LET bad == {i \in DOMAIN rs : rs[i].err # OK}
    IN  IF bad # {}
        THEN Raise(rs[CHOOSE i \in bad : \A j \in bad : i <= j].err, None)
        ELSE Ret(PyList([i \in DOMAIN rs |-> rs[i].val]))

class_sensitive(cls, force_iterable, value) ==
    IF ~force_iterable THEN validate_types(value, {cls})
    ELSE IF Falsy(value) THEN Ret(None)
    ELSE IF value.t = "list"
    THEN Collect([i \in DOMAIN value.items |-> validate_types(value.items[i], {cls})])
    ELSE Collect(<<validate_types(value, {cls})>>)

\* Spec 4.1, steps 1 to 6
validate_color(value) ==
    IF Falsy(value) THEN Ret(None)
    ELSE IF value.t = "obj" /\ value.s \in {"Gradient", "Pattern"} THEN Ret(value)
    ELSE IF value.t \in {"dict", "str"} /\ ClassOfMarkers(value.k) # ""
    THEN LET cls == ClassOfMarkers(value.k)
             r == IF value.t = "dict" THEN from_dict_of(cls, value)
                  ELSE from_json(cls, value)
         IN  IF r.err = OK THEN r
             ELSE IF value.t = "str" THEN validators_string(value, FALSE)
             ELSE Raise("ValueError", None)
    ELSE IF value.t = "str" THEN validators_string(value, FALSE)
    ELSE Raise("HighchartsValueError", None)

\* ------------------------------------------------------------- setters
\* Each setter takes the value the field holds and the raw value assigned,
\* and gives the value the field holds afterwards and the exception, if any.

\* A boolean setter that leaves the backing field alone when given None
bool_setter_skipping_none(old, value) ==
    IF value.t = "None" THEN Ret(old) ELSE Ret(PyBool(~Falsy(value)))

\* align_ticks, allow_decimals, opposite, reversed_stacks, zoom_enabled,
\* center_in_category, color_by_point, grouping, crisp, relative_x_value
bool_setter(old, value) ==
    IF value.t = "None" THEN Ret(None) ELSE Ret(PyBool(~Falsy(value)))

\* validators.numeric(value, allow_empty = True, minimum = 0)
numeric_min0_setter(old, value) ==
    Assign(old, validators_numeric(value, TRUE, TRUE))

\* validators.numeric(value, allow_empty = True)
numeric_setter(old, value) ==
    Assign(old, validators_numeric(value, TRUE, FALSE))

\* validators.integer(value, allow_empty = True), with no minimum
integer_setter_unbounded(old, value) ==
    Assign(old, validators_integer(value, TRUE, FALSE))

\* validators.integer(value, allow_empty = True, minimum = 0)
integer_min0_setter(old, value) ==
    Assign(old, validators_integer(value, TRUE, TRUE))

\* validators.string(value, allow_empty = True)
string_setter(old, value) ==
    Assign(old, validators_string(value, TRUE))

\* The last branch stores the value instead of raising
alternate_grid_color_setter_lenient(old, value) ==
    IF Falsy(value) THEN Ret(None)
    ELSE IF value.t = "obj" /\ value.s \in {"Gradient", "Pattern"} THEN Ret(value)
    ELSE IF value.t \in {"dict", "str"} /\ "linearGradient" \in value.k
    THEN LET r == from_json("Gradient", value)
         IN  IF r.err # "ValueError" THEN Assign(old, r)
             ELSE IF value.t = "dict" THEN Assign(old, from_dict_of("Gradient", value))
             ELSE Assign(old, validators_string(value, FALSE))
    ELSE IF value.t = "dict" /\ "linear_gradient" \in value.k
    THEN Assign(old, from_dict_of("Gradient", value))
    ELSE IF value.t \in {"dict", "str"} /\ "patternOptions" \in value.k
    THEN LET r == from_json("Pattern", value)
         IN  IF r.err # "ValueError" THEN Assign(old, r)
             ELSE IF value.t = "dict" THEN Assign(old, from_dict_of("Pattern", value))
             ELSE Assign(old, validators_string(value, FALSE))
    ELSE IF value.t = "dict" /\ "pattern_options" \in value.k
    THEN Assign(old, from_dict_of("Pattern", value))
    ELSE Ret(value)

alternate_grid_color_setter(old, value) ==
    IF Falsy(value) THEN Ret(None)
    ELSE IF value.t = "obj" /\ value.s \in {"Gradient", "Pattern"} THEN Ret(value)
    ELSE IF value.t \in {"dict", "str"} /\ "linearGradient" \in value.k
    THEN LET r == from_json("Gradient", value)
         IN  IF r.err # "ValueError" THEN Assign(old, r)
             ELSE IF value.t = "dict"
             THEN Assign(old, from_dict_of("Gradient", value))
             ELSE Assign(old, validators_string(value, FALSE))
    ELSE IF value.t = "dict" /\ "linear_gradient" \in value.k
    THEN Assign(old, from_dict_of("Gradient", value))
    ELSE IF value.t \in {"dict", "str"} /\ "patternOptions" \in value.k
    THEN LET r == from_json("Pattern", value)
         IN  IF r.err # "ValueError" THEN Assign(old, r)
             ELSE IF value.t = "dict"
             THEN Assign(old, from_dict_of("Pattern", value))
             ELSE Assign(old, validators_string(value, FALSE))
    ELSE IF value.t = "dict" /\ "pattern_options" \in value.k
    THEN Assign(old, from_dict_of("Pattern", value))
    ELSE Raise("HighchartsValueError", old)

breaks_setter(old, value) ==
    Assign(old, class_sensitive("AxisBreak", TRUE, value))

\* plot_bands without force_iterable
plot_bands_setter_bare(old, value) ==
    Assign(old, class_sensitive("PlotBand", FALSE, value))

plot_bands_setter(old, value) ==
    Assign(old, class_sensitive("PlotBand", TRUE, value))

plot_lines_setter(old, value) ==
    Assign(old, class_sensitive("PlotLine", TRUE, value))

date_time_label_formats_setter(old, value) ==
    Assign(old, class_sensitive("DateTimeLabelFormats", FALSE, value))

title_setter(old, value) ==
    Assign(old, class_sensitive("AxisTitle", FALSE, value))

categories_setter(old, value) ==
    IF Falsy(value) THEN Ret(None)
    ELSE LET it == validators_iterable(value)
         IN  IF it.err # OK THEN Raise(it.err, old)
             ELSE Assign(old, Collect([i \in DOMAIN it.val.items |->
                                 validators_string(it.val.items[i], FALSE)]))

\* BaseBarOptions.border_color, BoxPlotOptions.median_color, whisker_color
color_setter(old, value) == Assign(old, validate_color(value))

colors_setter(old, value) ==
    IF Falsy(value) THEN Ret(None)
    ELSE LET it == validators_iterable(value)
         IN  IF it.err # OK THEN Raise(it.err, old)
             ELSE Assign(old, Collect([i \in DOMAIN it.val.items |->
                     IF it.val.t = "str" THEN Ret(it.val.items[i])
                     ELSE validate_types(it.val.items[i], {"Gradient", "Pattern"})]))

point_range_setter(old, value) ==
    IF value.t = "EnforcedNull" THEN Ret(EnforcedNull)
    ELSE Assign(old, validators_numeric(value, TRUE, FALSE))

\* box_dash_style, median_dash_style, stem_dash_style, whisker_dash_style
dash_style_setter(old, value) ==
    IF Falsy(value) THEN Ret(None)
    ELSE LET r == validators_string(value, FALSE)
         IN  IF r.err # OK THEN Raise(r.err, old)
             ELSE IF r.val.s \notin SUPPORTED_DASH_STYLE_VALUES
             THEN Raise("HighchartsValueError", old)
             ELSE Ret(r.val)

HasPercent(s) == s \in {"50%"}

whisker_length_setter(old, value) ==
    IF value.t = "None" THEN Ret(None)
    ELSE LET r == validators_string(value, FALSE)
         IN  IF r.err = "TypeError" THEN Raise("TypeError", old)
             ELSE IF r.err = OK /\ HasPercent(r.val.s) THEN Ret(r.val)
             ELSE Assign(old, validators_numeric(IF r.err = OK THEN r.val ELSE value,
                                                 TRUE, TRUE))

animation_limit_setter(old, value) ==
    IF value.t = "inf" THEN Ret(Inf)
    ELSE Assign(old, validators_numeric(value, TRUE, TRUE))

\* VennOptions.border_dash_style: validators.string(value, allow_empty = True)
border_dash_style_setter(old, value) ==
    Assign(old, validators_string(value, TRUE))

color_axis_setter(old, value) ==
    IF value.t = "None" THEN Ret(None)
    ELSE IF value.t = "bool" /\ value.n = 0 THEN Ret(PyBool(FALSE))
    ELSE LET r == validators_string(value, FALSE)
         IN  IF r.err = "TypeError"
             THEN Assign(old, validators_integer(value, FALSE, TRUE))
             ELSE Assign(old, r)

cluster_setter(old, value) ==
    Assign(old, class_sensitive("ClusterOptions", FALSE, value))

data_grouping_setter(old, value) ==
    Assign(old, class_sensitive("DataGroupingOptions", FALSE, value))

partial_fill_setter(old, value) ==
    Assign(old, class_sensitive("PartialFillOptions", FALSE, value))

\* The ancestors outside src/ (GenericAxis, GenericTypeOptions,
\* SeriesOptions) are represented by their class_name attribute.
class_name_setter(old, value) ==
    Assign(old, validators_string(value, TRUE))

\* ------------------------------------------------------- the classes

\* kwargs.pop(name, None), as_dict.pop(key, None)
Get(m, name) == IF name \in DOMAIN m THEN m[name] ELSE None

Range(seq) == {seq[i] : i \in DOMAIN seq}

NoneDefault(a) == None

\* The parent's __init__ (GenericAxis, GenericTypeOptions, SeriesOptions)
Parent_attrs == <<"class_name">>
Parent_set(a, old, value) == class_name_setter(old, value)

\* `super().__init__(**kwargs)` after the level's own setters
ThenSuper(own, parent) ==
    IF own.err # OK THEN own
    ELSE IF parent.err # OK THEN parent
    ELSE [err |-> OK, f |-> own.f @@ parent.f]

\* `super(self).__init__(**kwargs)`: super() of an instance raises TypeError
ThenSuperOfSelf(own) ==
    IF own.err # OK THEN own ELSE [err |-> "TypeError:super", f |-> <<>>]

NumericAxis_attrs ==
    <<"align_ticks", "allow_decimals", "alternate_grid_color", "breaks",
      "categories", "date_time_label_formats", "linked_to", "min_range",
      "min_tick_interval", "offset", "opposite", "pane", "plot_bands",
      "plot_lines", "reversed_stacks", "title", "zoom_enabled">>

NumericAxis_set(a, old, value) ==
    CASE a \in {"align_ticks", "allow_decimals", "opposite", "reversed_stacks",
                "zoom_enabled"} -> bool_setter(old, value)
      [] a = "alternate_grid_color" -> alternate_grid_color_setter(old, value)
      [] a = "breaks" -> breaks_setter(old, value)
      [] a = "categories" -> categories_setter(old, value)
      [] a = "date_time_label_formats" -> date_time_label_formats_setter(old, value)
      [] a \in {"linked_to", "pane"} -> integer_min0_setter(old, value)
      [] a \in {"min_range", "min_tick_interval", "offset"} -> numeric_setter(old, value)
      [] a = "plot_bands" -> plot_bands_setter(old, value)
      [] a = "plot_lines" -> plot_lines_setter(old, value)
      [] a = "title" -> title_setter(old, value)
      [] OTHER -> Parent_set(a, old, value)

VennOptions_attrs ==
    <<"animation_limit", "color_axis", "color_index", "color_key", "crisp",
      "relative_x_value", "step", "border_dash_style", "brighten", "cluster">>

\* The backing fields before the setters run: _relative_x_value = False
VennOptions_default(a) == IF a = "relative_x_value" THEN PyBool(FALSE) ELSE None

VennOptions_set(a, old, value) ==
    CASE a = "animation_limit" -> animation_limit_setter(old, value)
      [] a = "color_axis" -> color_axis_setter(old, value)
      [] a = "color_index" -> integer_min0_setter(old, value)
      [] a \in {"color_key", "step"} -> string_setter(old, value)
      [] a \in {"crisp", "relative_x_value"} -> bool_setter(old, value)
      [] a = "border_dash_style" -> border_dash_style_setter(old, value)
      [] a = "brighten" -> numeric_setter(old, value)
      [] a = "cluster" -> cluster_setter(old, value)
      [] OTHER -> Parent_set(a, old, value)

BaseBarOptions_attrs ==
    <<"border_color", "border_radius", "border_width", "center_in_category",
      "color_by_point", "colors", "grouping", "group_padding", "max_point_width",
      "min_point_length", "point_padding", "point_range", "point_width">>

BaseBarOptions_set(a, old, value) ==
    CASE a = "border_color" -> color_setter(old, value)
      [] a \in {"border_radius", "border_width", "group_padding", "max_point_width",
                "min_point_length", "point_padding", "point_width"}
           -> numeric_min0_setter(old, value)
      [] a \in {"center_in_category", "color_by_point", "grouping"}
           -> bool_setter(old, value)
      [] a = "colors" -> colors_setter(old, value)
      [] a = "point_range" -> point_range_setter(old, value)
      [] OTHER -> Parent_set(a, old, value)

BarOptions_attrs == <<"depth", "edge_color", "edge_width", "group_z_padding">>

BarOptions_set(a, old, value) ==
    CASE a \in {"depth", "edge_width", "group_z_padding"}
           -> numeric_min0_setter(old, value)
      [] a = "edge_color" -> string_setter(old, value)
      [] OTHER -> BaseBarOptions_set(a, old, value)

BoxPlotOptions_attrs ==
    <<"box_dash_style", "median_color", "median_dash_style", "median_width",
      "stem_dash_style", "stem_width", "whisker_color", "whisker_dash_style",
      "whisker_length", "whisker_width">>

BoxPlotOptions_set(a, old, value) ==
    CASE a \in {"box_dash_style", "median_dash_style", "stem_dash_style",
                "whisker_dash_style"} -> dash_style_setter(old, value)
      [] a \in {"median_color", "whisker_color"} -> color_setter(old, value)
      [] a \in {"median_width", "stem_width", "whisker_width"}
           -> numeric_min0_setter(old, value)
      [] a = "whisker_length" -> whisker_length_setter(old, value)
      [] OTHER -> BarOptions_set(a, old, value)

\* WaterfallOptions extends ColumnOptions, which adds nothing to BarOptions
WaterfallOptions_attrs == <<"line_color", "up_color">>

WaterfallOptions_set(a, old, value) ==
    CASE a \in {"line_color", "up_color"} -> color_setter(old, value)
      [] OTHER -> BarOptions_set(a, old, value)

WindBarbOptions_attrs ==
    <<"data_grouping", "on_series", "vector_length", "x_offset", "y_offset">>

WindBarbOptions_set(a, old, value) ==
    CASE a = "data_grouping" -> data_grouping_setter(old, value)
      [] a = "on_series" -> string_setter(old, value)
      [] a = "vector_length" -> numeric_min0_setter(old, value)
      [] a \in {"x_offset", "y_offset"} -> numeric_setter(old, value)
      [] OTHER -> BarOptions_set(a, old, value)

\* XRangeOptions extends BaseBarOptions and declares group_z_padding itself
XRangeOptions_attrs == <<"group_z_padding", "partial_fill">>

XRangeOptions_set(a, old, value) ==
    CASE a = "group_z_padding" -> numeric_min0_setter(old, value)
      [] a = "partial_fill" -> partial_fill_setter(old, value)
      [] OTHER -> BaseBarOptions_set(a, old, value)

\* One level of an __init__: the setters have run in the order of the source
\* on kwargs.pop(attribute, None), giving rs; the first exception ends the
\* construction.
InitLevel(order, rs) ==
    LET bad == {i \in DOMAIN rs : rs[i].err # OK}
    IN  IF bad # {}
        THEN [err |-> rs[CHOOSE i \in bad : \A j \in bad : i <= j].err, f |-> <<>>]
        ELSE [err |-> OK,
              f |-> [a \in Range(order) |->
                        rs[CHOOSE i \in DOMAIN order : order[i] = a].val]]

Parent_init(kwargs) ==
    InitLevel(Parent_attrs,
              [i \in DOMAIN Parent_attrs |->
                  Parent_set(Parent_attrs[i], NoneDefault(Parent_attrs[i]),
                             Get(kwargs, Parent_attrs[i]))])

NumericAxis_init(kwargs) ==
    ThenSuper(InitLevel(NumericAxis_attrs,
                  [i \in DOMAIN NumericAxis_attrs |->
                      NumericAxis_set(NumericAxis_attrs[i],
                                      NoneDefault(NumericAxis_attrs[i]),
                                      Get(kwargs, NumericAxis_attrs[i]))]),
              Parent_init(kwargs))

VennOptions_init(kwargs) ==
    ThenSuper(InitLevel(VennOptions_attrs,
                  [i \in DOMAIN VennOptions_attrs |->
                      VennOptions_set(VennOptions_attrs[i],
                                      VennOptions_default(VennOptions_attrs[i]),
                                      Get(kwargs, VennOptions_attrs[i]))]),
              Parent_init(kwargs))

BaseBarOptions_init(kwargs) ==
    ThenSuperOfSelf(InitLevel(BaseBarOptions_attrs,
        [i \in DOMAIN BaseBarOptions_attrs |->
            BaseBarOptions_set(BaseBarOptions_attrs[i],
                               NoneDefault(BaseBarOptions_attrs[i]),
                               Get(kwargs, BaseBarOptions_attrs[i]))]))

BarOptions_init(kwargs) ==
    ThenSuperOfSelf(InitLevel(BarOptions_attrs,
        [i \in DOMAIN BarOptions_attrs |->
            BarOptions_set(BarOptions_attrs[i], NoneDefault(BarOptions_attrs[i]),
                           Get(kwargs, BarOptions_attrs[i]))]))

BoxPlotOptions_init(kwargs) ==
    ThenSuperOfSelf(InitLevel(BoxPlotOptions_attrs,
        [i \in DOMAIN BoxPlotOptions_attrs |->
            BoxPlotOptions_set(BoxPlotOptions_attrs[i],
                               NoneDefault(BoxPlotOptions_attrs[i]),
                               Get(kwargs, BoxPlotOptions_attrs[i]))]))

\* `super().__init__(**kwargs)` of the three classes below reaches
\* BarOptions.__init__ or BaseBarOptions.__init__
WaterfallOptions_init(kwargs) ==
    ThenSuper(InitLevel(WaterfallOptions_attrs,
                  [i \in DOMAIN WaterfallOptions_attrs |->
                      WaterfallOptions_set(WaterfallOptions_attrs[i],
                                           NoneDefault(WaterfallOptions_attrs[i]),
                                           Get(kwargs, WaterfallOptions_attrs[i]))]),
              BarOptions_init(kwargs))

WindBarbOptions_init(kwargs) ==
    ThenSuper(InitLevel(WindBarbOptions_attrs,
                  [i \in DOMAIN WindBarbOptions_attrs |->
                      WindBarbOptions_set(WindBarbOptions_attrs[i],
                                          NoneDefault(WindBarbOptions_attrs[i]),
                                          Get(kwargs, WindBarbOptions_attrs[i]))]),
              BarOptions_init(kwargs))

XRangeOptions_init(kwargs) ==
    ThenSuper(InitLevel(XRangeOptions_attrs,
                  [i \in DOMAIN XRangeOptions_attrs |->
                      XRangeOptions_set(XRangeOptions_attrs[i],
                                        NoneDefault(XRangeOptions_attrs[i]),
                                        Get(kwargs, XRangeOptions_attrs[i]))]),
              BaseBarOptions_init(kwargs))

Classes ==
    {"NumericAxis", "VennOptions", "BaseBarOptions", "BarOptions", "BoxPlotOptions",
     "WaterfallOptions", "WindBarbOptions", "XRangeOptions"}
BarFamily ==
    {"BaseBarOptions", "BarOptions", "BoxPlotOptions", "WaterfallOptions",
     "WindBarbOptions", "XRangeOptions"}

\* cls(**kwargs)
construct(cls, kwargs) ==
    CASE cls = "NumericAxis" -> NumericAxis_init(kwargs)
      [] cls = "VennOptions" -> VennOptions_init(kwargs)
      [] cls = "BaseBarOptions" -> BaseBarOptions_init(kwargs)
      [] cls = "BarOptions" -> BarOptions_init(kwargs)
      [] cls = "BoxPlotOptions" -> BoxPlotOptions_init(kwargs)
      [] cls = "WaterfallOptions" -> WaterfallOptions_init(kwargs)
      [] cls = "WindBarbOptions" -> WindBarbOptions_init(kwargs)
      [] cls = "XRangeOptions" -> XRangeOptions_init(kwargs)

\* The attributes a class declares, its ancestors' included
Declared(cls) ==
    CASE cls = "NumericAxis" -> Range(NumericAxis_attrs) \cup Range(Parent_attrs)
      [] cls = "VennOptions" -> Range(VennOptions_attrs) \cup Range(Parent_attrs)
      [] cls = "BaseBarOptions" -> Range(BaseBarOptions_attrs) \cup Range(Parent_attrs)
      [] cls = "BarOptions" ->
           Range(BarOptions_attrs) \cup Range(BaseBarOptions_attrs) \cup Range(Parent_attrs)
      [] cls = "BoxPlotOptions" ->
           Range(BoxPlotOptions_attrs) \cup Range(BarOptions_attrs)
             \cup Range(BaseBarOptions_attrs) \cup Range(Parent_attrs)
      [] cls = "WaterfallOptions" ->
           Range(WaterfallOptions_attrs) \cup Range(BarOptions_attrs)
             \cup Range(BaseBarOptions_attrs) \cup Range(Parent_attrs)
      [] cls = "WindBarbOptions" ->
           Range(WindBarbOptions_attrs) \cup Range(BarOptions_attrs)
             \cup Range(BaseBarOptions_attrs) \cup Range(Parent_attrs)
      [] cls = "XRangeOptions" ->
           Range(XRangeOptions_attrs) \cup Range(BaseBarOptions_attrs)
             \cup Range(Parent_attrs)

\* obj.<a> = value
setattr(cls, a, old, value) ==
    CASE cls = "NumericAxis" -> NumericAxis_set(a, old, value)
      [] cls = "VennOptions" -> VennOptions_set(a, old, value)
      [] cls = "BaseBarOptions" -> BaseBarOptions_set(a, old, value)
      [] cls = "BarOptions" -> BarOptions_set(a, old, value)
      [] cls = "BoxPlotOptions" -> BoxPlotOptions_set(a, old, value)
      [] cls = "WaterfallOptions" -> WaterfallOptions_set(a, old, value)
      [] cls = "WindBarbOptions" -> WindBarbOptions_set(a, old, value)
      [] cls = "XRangeOptions" -> XRangeOptions_set(a, old, value)

\* ------------------------------------------------------ the wire tables
\* Pairs <<attribute, wire key>>, as the source lists them.

NumericAxis_from_dict_keys ==
    {<<"align_ticks", "alignTicks">>, <<"allow_decimals", "allowDecimals">>,
     <<"alternate_grid_color", "alternateGridColor">>, <<"breaks", "breaks">>,
     <<"categories", "categories">>, <<"class_name", "className">>,
     <<"date_time_label_formats", "dateTimeLabelFormats">>,
     <<"linked_to", "linkedTo">>, <<"min_range", "minRange">>,
     <<"min_tick_interval", "minTickInterval">>, <<"offset", "offset">>,
     <<"opposite", "opposite">>, <<"pane", "pane">>,
     <<"plot_bands", "plotBands">>, <<"plot_lines", "plotLines">>,
     <<"reversed_stacks", "reversedStacks">>, <<"title", "title">>,
     <<"zoom_enabled", "zoomEnabled">>}

NumericAxis_to_dict_keys ==
    {<<"align_ticks", "alignTicks">>, <<"allow_decimals", "allowDecimals">>,
     <<"alternate_grid_color", "alternateGridColor">>, <<"breaks", "breaks">>,
     <<"categories", "categories">>, <<"class_name", "class_name">>,
     <<"date_time_label_formats", "dateTimeLabelFormats">>,
     <<"linked_to", "linkedTo">>, <<"min_range", "minRange">>,
     <<"min_tick_interval", "minTickInterval">>, <<"offset", "offset">>,
     <<"opposite", "opposite">>, <<"pane", "pane">>,
     <<"plot_bands", "plotPands">>, <<"plot_lines", "plotLines">>,
     <<"reversed_stacks", "reversedStacks">>, <<"title", "title">>,
     <<"zoom_enabled", "zoomEnabled">>}

\* The ancestors' tables, represented by class_name
Parent_keys == {<<"class_name", "className">>}

VennOptions_from_dict_keys ==
    Parent_keys \cup
    {<<"animation_limit", "animationLimit">>, <<"color_axis", "colorAxis">>,
     <<"color_index", "colorIndex">>, <<"color_key", "colorKey">>,
     <<"crisp", "crisp">>, <<"relative_x_value", "relativeXValue">>,
     <<"step", "step">>, <<"border_dash_style", "borderDashStyle">>,
     <<"brighten", "brighten">>, <<"cluster", "cluster">>}

\* A literal in which color_key is written under the parent's key 'className'
VennOptions_to_dict_keys_colliding ==
    {<<"animation_limit", "animation_limit">>, <<"color_axis", "color_axis">>,
     <<"color_index", "color_index">>, <<"color_key", "className">>,
     <<"crisp", "crisp">>, <<"relative_x_value", "relative_x_value">>,
     <<"step", "step">>, <<"border_dash_style", "border_dash_style">>,
     <<"brighten", "brighten">>, <<"cluster", "cluster">>}

VennOptions_to_dict_keys ==
    {<<"animation_limit", "animation_limit">>, <<"color_axis", "color_axis">>,
     <<"color_index", "color_index">>, <<"color_key", "color_key">>,
     <<"crisp", "crisp">>, <<"relative_x_value", "relative_x_value">>,
     <<"step", "step">>, <<"border_dash_style", "border_dash_style">>,
     <<"brighten", "brighten">>, <<"cluster", "cluster">>}

BaseBarOptions_own_keys ==
    {<<"border_color", "borderColor">>, <<"border_radius", "borderRadius">>,
     <<"border_width", "borderWidth">>,
     <<"center_in_category", "centerInCategory">>,
     <<"color_by_point", "colorByPoint">>, <<"colors", "colors">>,
     <<"grouping", "grouping">>, <<"group_padding", "groupPadding">>,
     <<"max_point_width", "maxPointWidth">>,
     <<"min_point_length", "minPointLength">>,
     <<"point_padding", "pointPadding">>, <<"point_range", "pointRange">>,
     <<"point_width", "pointWidth">>}

BarOptions_own_keys ==
    {<<"depth", "depth">>, <<"edge_color", "edgeColor">>,
     <<"edge_width", "edgeWidth">>, <<"group_z_padding", "groupZPadding">>}

BoxPlotOptions_own_keys ==
    {<<"box_dash_style", "boxDashStyle">>, <<"median_color", "medianColor">>,
     <<"median_dash_style", "medianDashStyle">>, <<"median_width", "medianWidth">>,
     <<"stem_dash_style", "stemDashStyle">>, <<"stem_width", "stemWidth">>,
     <<"whisker_color", "whiskerColor">>,
     <<"whisker_dash_style", "whiskerDashStyle">>,
     <<"whisker_length", "whiskerLength">>, <<"whisker_width", "whiskerWidth">>}

WaterfallOptions_own_keys ==
    {<<"line_color", "lineColor">>, <<"up_color", "upColor">>}

WindBarbOptions_own_keys ==
    {<<"data_grouping", "dataGrouping">>, <<"on_series", "onSeries">>,
     <<"vector_length", "vectorLength">>, <<"x_offset", "xOffset">>,
     <<"y_offset", "yOffset">>}

XRangeOptions_own_keys ==
    {<<"group_z_padding", "groupZPadding">>, <<"partial_fill", "partialFill">>}

BaseBarOptions_from_dict_keys == Parent_keys \cup BaseBarOptions_own_keys

BarOptions_from_dict_keys ==
    Parent_keys \cup BaseBarOptions_own_keys \cup BarOptions_own_keys

\* BoxPlotOptions._get_kwargs_from_dict: no 'colors', and five keys of
\* attributes that no level of the chain declares
BoxPlotOptions_from_dict_keys ==
    Parent_keys
    \cup {<<"fill_color", "fillColor">>, <<"fill_opacity", "fillOpacity">>,
          <<"line_color", "lineColor">>,
          <<"negative_fill_color", "negativeFillColor">>,
          <<"track_by_area", "trackByArea">>}
    \cup (BaseBarOptions_own_keys \ {<<"colors", "colors">>})
    \cup BarOptions_own_keys \cup BoxPlotOptions_own_keys

WaterfallOptions_from_dict_keys ==
    Parent_keys \cup BaseBarOptions_own_keys \cup BarOptions_own_keys
      \cup WaterfallOptions_own_keys

WindBarbOptions_from_dict_keys ==
    Parent_keys \cup BaseBarOptions_own_keys \cup BarOptions_own_keys
      \cup WindBarbOptions_own_keys

XRangeOptions_from_dict_keys ==
    Parent_keys \cup BaseBarOptions_own_keys \cup XRangeOptions_own_keys

from_dict_keys(cls) ==
    CASE cls = "NumericAxis" -> NumericAxis_from_dict_keys
      [] cls = "VennOptions" -> VennOptions_from_dict_keys
      [] cls = "BaseBarOptions" -> BaseBarOptions_from_dict_keys
      [] cls = "BarOptions" -> BarOptions_from_dict_keys
      [] cls = "BoxPlotOptions" -> BoxPlotOptions_from_dict_keys
      [] cls = "WaterfallOptions" -> WaterfallOptions_from_dict_keys
      [] cls = "WindBarbOptions" -> WindBarbOptions_from_dict_keys
      [] cls = "XRangeOptions" -> XRangeOptions_from_dict_keys

\* The mapping literal of each level's _to_untrimmed_dict
BaseBarOptions_untrimmed_keys ==
    {<<"border_color", "borderColor">>, <<"border_radius", "borderRadius">>,
     <<"border_width", "borderWidth">>,
     <<"center_in_category", "centerInCategory">>,
     <<"color_by_point", "colorByPoint">>, <<"colors", "colors">>,
     <<"grouping", "grouping">>, <<"group_padding", "groupPadding">>,
     <<"max_point_width", "maxPointWidth">>,
     <<"min_point_length", "minPointLength">>,
     <<"point_padding", "pointPadding">>, <<"point_range", "pointRange">>,
     <<"point_width", "pointWidth">>}

BarOptions_untrimmed_keys ==
    {<<"depth", "depth">>, <<"edge_color", "edgeColor">>,
     <<"edge_width", "edgeWidth">>, <<"group_z_padding", "groupZPadding">>}

BoxPlotOptions_untrimmed_keys ==
    {<<"box_dash_style", "boxDashStyle">>, <<"median_color", "medianColor">>,
     <<"median_dash_style", "medianDashStyle">>, <<"median_width", "medianWidth">>,
     <<"stem_dash_style", "stemDashStyle">>, <<"stem_width", "stemWidth">>,
     <<"whisker_color", "whiskerColor">>,
     <<"whisker_dash_style", "whiskerDashStyle">>,
     <<"whisker_length", "whiskerLength">>, <<"whisker_width", "whiskerWidth">>}

WaterfallOptions_untrimmed_keys ==
    {<<"line_color", "lineColor">>, <<"up_color", "upColor">>}

WindBarbOptions_untrimmed_keys ==
    {<<"data_grouping", "dataGrouping">>, <<"on_series", "onSeries">>,
     <<"vector_length", "vectorLength">>, <<"x_offset", "xOffset">>,
     <<"y_offset", "yOffset">>}

XRangeOptions_untrimmed_keys ==
    {<<"group_z_padding", "groupZPadding">>, <<"partial_fill", "partialFill">>}

\* The levels of a class's chain that have a _to_untrimmed_dict, from the
\* class up to the ancestors outside src/
Levels(cls) ==
    CASE cls = "VennOptions" -> <<VennOptions_to_dict_keys, Parent_keys>>
      [] cls = "BaseBarOptions" -> <<BaseBarOptions_untrimmed_keys, Parent_keys>>
      [] cls = "BarOptions" ->
           <<BarOptions_untrimmed_keys, BaseBarOptions_untrimmed_keys, Parent_keys>>
      [] cls = "BoxPlotOptions" ->
           <<BoxPlotOptions_untrimmed_keys, BarOptions_untrimmed_keys,
             BaseBarOptions_untrimmed_keys, Parent_keys>>
      [] cls = "WaterfallOptions" ->
           <<WaterfallOptions_untrimmed_keys, BarOptions_untrimmed_keys,
             BaseBarOptions_untrimmed_keys, Parent_keys>>
      [] cls = "WindBarbOptions" ->
           <<WindBarbOptions_untrimmed_keys, BarOptions_untrimmed_keys,
             BaseBarOptions_untrimmed_keys, Parent_keys>>
      [] cls = "XRangeOptions" ->
           <<XRangeOptions_untrimmed_keys, BaseBarOptions_untrimmed_keys,
             Parent_keys>>
      [] OTHER -> <<>>

\* ----------------------------------------------------- wire conversion

NoMapping == [x \in {} |-> None]

\* kwargs = {attribute: as_dict.pop(key, None), ...}
get_kwargs_from_dict(cls, as_dict) ==
    LET T == from_dict_keys(cls)
    IN  [a \in {p[1] : p \in T} |->
            Get(as_dict, (CHOOSE p \in T : p[1] = a)[2])]

\* What the pops leave of the caller's mapping
after_pops(cls, as_dict) ==
    LET keys == {p[2] : p \in from_dict_keys(cls)}
    IN  [key \in DOMAIN as_dict \ keys |-> as_dict[key]]

\* cls.from_dict(as_dict)
from_dict(cls, as_dict) == construct(cls, get_kwargs_from_dict(cls, as_dict))

\* The mapping literal of a level: {key: self.attribute, ...}
untrimmed_of(T, f) ==
    [key \in {p[2] : p \in T} |-> f[(CHOOSE p \in T : p[2] = key)[1]]]

\* The ancestors' _to_untrimmed_dict()
Parent_to_untrimmed_dict(f) == untrimmed_of(Parent_keys, f)

\* for key in parent_as_dict: untrimmed[key] = parent_as_dict[key]
merge_parent(untrimmed, parent_as_dict) == parent_as_dict @@ untrimmed

VennOptions_to_untrimmed_dict(f) ==
    [err |-> OK,
     m |-> merge_parent(untrimmed_of(VennOptions_to_dict_keys, f),
                        Parent_to_untrimmed_dict(f))]

\* `super(self)._to_untrimmed_dict()`: super() of an instance raises TypeError
BaseBarOptions_to_untrimmed_dict(f) == [err |-> "TypeError:super", m |-> NoMapping]
BarOptions_to_untrimmed_dict(f) == [err |-> "TypeError:super", m |-> NoMapping]
BoxPlotOptions_to_untrimmed_dict(f) == [err |-> "TypeError:super", m |-> NoMapping]
WaterfallOptions_to_untrimmed_dict(f) == [err |-> "TypeError:super", m |-> NoMapping]
WindBarbOptions_to_untrimmed_dict(f) == [err |-> "TypeError:super", m |-> NoMapping]
XRangeOptions_to_untrimmed_dict(f) == [err |-> "TypeError:super", m |-> NoMapping]

\* The wire form of a value: an instance becomes its mapping
WireItem(v) == IF v.t = "obj" THEN PyDict(v.s, v.k, TRUE, v.n) ELSE v

Empty(v) ==
    \/ v.t = "None"
    \/ v.t = "str" /\ v.s = ""
    \/ v.t = "list" /\ v.items = <<>>
    \/ v.t = "dict" /\ v.k = {} /\ v.n = 0

NotEmpty(v) == ~Empty(v)

WireVal(v) ==
    IF v.t = "list"
    THEN PyList(SelectSeq([i \in DOMAIN v.items |-> WireItem(v.items[i])], NotEmpty))
    ELSE WireItem(v)

trim_dict(untrimmed) ==
    LET w == [key \in DOMAIN untrimmed |-> WireVal(untrimmed[key])]
    IN  [key \in {x \in DOMAIN w : ~Empty(w[x])} |-> w[key]]

\* to_dict that drops the null values only
NumericAxis_to_dict_shallow(f) ==
    LET u == untrimmed_of(NumericAxis_to_dict_keys, f)
    IN  [err |-> OK,
         m |-> [key \in {x \in DOMAIN u : u[x].t # "None"} |-> WireItem(u[key])]]

\* to_dict that returns the untrimmed mapping
NumericAxis_to_dict_untrimmed(f) ==
    [err |-> OK, m |-> untrimmed_of(NumericAxis_to_dict_keys, f)]

NumericAxis_to_dict(f) ==
    [err |-> OK, m |-> trim_dict(untrimmed_of(NumericAxis_to_dict_keys, f))]

\* obj.to_dict()
to_dict(cls, f) ==
    LET u == CASE cls = "VennOptions" -> VennOptions_to_untrimmed_dict(f)
               [] cls = "BaseBarOptions" -> BaseBarOptions_to_untrimmed_dict(f)
               [] cls = "BarOptions" -> BarOptions_to_untrimmed_dict(f)
               [] cls = "BoxPlotOptions" -> BoxPlotOptions_to_untrimmed_dict(f)
               [] cls = "WaterfallOptions" -> WaterfallOptions_to_untrimmed_dict(f)
               [] cls = "WindBarbOptions" -> WindBarbOptions_to_untrimmed_dict(f)
               [] cls = "XRangeOptions" -> XRangeOptions_to_untrimmed_dict(f)
               [] OTHER -> [err |-> OK, m |-> NoMapping]
    IN  IF cls = "NumericAxis" THEN NumericAxis_to_dict(f)
        ELSE IF u.err # OK THEN u
        ELSE [err |-> OK, m |-> trim_dict(u.m)]

\* ------------------------------------------------------------- inputs
\* The raw values a caller assigns, a small set per kind of attribute.

MaxSets == 1

GradientObj == PyObj("Gradient", {"linearGradient"}, 1)
PatternObj == PyObj("Pattern", {"patternOptions"}, 1)
GradientDict(marker, wf) == PyDict("Gradient", {marker}, wf, 1)
PatternDict(marker, wf) == PyDict("Pattern", {marker}, wf, 1)

ColorRaws ==
    {None, PyStr(""), PyStr("#ff0000"), GradientObj, PatternObj, PyInt(5),
     PyList(<<PyStr("#ff0000")>>),
     GradientDict("linearGradient", TRUE), GradientDict("linearGradient", FALSE),
     GradientDict("linear_gradient", TRUE), GradientDict("linear_gradient", FALSE),
     GradientDict("radialGradient", TRUE),
     PatternDict("patternOptions", TRUE), PatternDict("patternOptions", FALSE),
     PatternDict("pattern_options", TRUE),
     MarkedStr("{'linearGradient': {...}}", {"linearGradient"}, TRUE),
     MarkedStr("linearGradient(0, 0", {"linearGradient"}, FALSE),
     MarkedStr("linear_gradient(0, 0", {"linear_gradient"}, FALSE),
     MarkedStr("radialGradient(0, 0", {"radialGradient"}, FALSE),
     MarkedStr("{'patternOptions': {...}}", {"patternOptions"}, TRUE),
     MarkedStr("patternOptions: x", {"patternOptions"}, FALSE)}

BoolRaws == {None, PyBool(FALSE), PyBool(TRUE), PyInt(0), PyStr("Dash")}
NumRaws ==
    {None, PyInt(-1), PyInt(0), PyInt(5), PyFloat(1), PyStr("5"), PyStr("-5"),
     PyStr("Dash")}
StrRaws == {None, PyStr(""), PyStr("Dash"), PyStr("NotARealStyle"), PyInt(5)}
NodeRaws(cls) ==
    {None, PyObj(cls, {}, 1), PyObj(cls, {}, 0), PyDict(cls, {}, TRUE, 1),
     PyDict(cls, {}, FALSE, 1), PyInt(5)}
NodeListRaws(cls) ==
    {None, PyList(<<>>), PyInt(5),
     PyObj(cls, {}, 1), PyList(<<PyObj(cls, {}, 1)>>),
     PyDict(cls, {}, TRUE, 1), PyList(<<PyDict(cls, {}, TRUE, 1)>>),
     PyDict(cls, {}, FALSE, 1),
     PyList(<<PyObj(cls, {}, 1), PyObj(cls, {}, 0)>>)}
CategoriesRaws ==
    {None, PyList(<<>>), PyList(<<PyStr("a")>>), PyList(<<PyStr("a"), PyStr("b")>>),
     PyStr("a"), PyList(<<PyInt(5)>>), PyInt(5)}
WhiskerLengthRaws == NumRaws \cup {PyStr("50%"), PyStr("")}
ColorAxisRaws ==
    {None, PyBool(FALSE), PyStr("Dash"), PyStr(""), PyInt(0), PyInt(1), PyInt(-1)}
ColorsRaws ==
    {None, PyList(<<>>), PyStr("#ff0000"), PyInt(5),
     PyList(<<PyStr("#ff0000")>>), PyList(<<GradientObj>>),
     PyList(<<PyStr("#ff0000"), GradientObj>>),
     PyList(<<GradientDict("linearGradient", TRUE), PatternObj>>)}

RawsFor(a) ==
    CASE a \in {"align_ticks", "allow_decimals", "opposite", "reversed_stacks",
                "zoom_enabled", "crisp", "relative_x_value", "center_in_category",
                "color_by_point", "grouping"} -> BoolRaws
      [] a \in {"alternate_grid_color", "border_color", "median_color",
                "whisker_color", "line_color", "up_color"} -> ColorRaws
      [] a = "breaks" -> NodeListRaws("AxisBreak")
      [] a = "plot_bands" -> NodeListRaws("PlotBand")
      [] a = "plot_lines" -> NodeListRaws("PlotLine")
      [] a = "categories" -> CategoriesRaws
      [] a = "date_time_label_formats" -> NodeRaws("DateTimeLabelFormats")
      [] a = "title" -> NodeRaws("AxisTitle")
      [] a = "cluster" -> NodeRaws("ClusterOptions")
      [] a = "data_grouping" -> NodeRaws("DataGroupingOptions")
      [] a = "partial_fill" -> NodeRaws("PartialFillOptions")
      [] a \in {"class_name", "color_key", "step", "edge_color", "border_dash_style",
                "box_dash_style", "median_dash_style", "stem_dash_style",
                "whisker_dash_style", "on_series"} -> StrRaws \cup {PyStr("Solid")}
      [] a = "animation_limit" -> NumRaws \cup {Inf}
      [] a = "point_range" -> NumRaws \cup {EnforcedNull}
      [] a = "color_axis" -> ColorAxisRaws
      [] a = "colors" -> ColorsRaws
      [] a = "whisker_length" -> WhiskerLengthRaws
      [] OTHER -> NumRaws

\* The initializer mappings a caller passes: none, one attribute, or the
\* three of the bar-family scenario of spec section 8
ScenarioKwargs ==
    [a \in {"point_padding", "border_width", "color_by_point"} |->
        CASE a = "point_padding" -> PyFloat(1)
          [] a = "border_width" -> None
          [] a = "color_by_point" -> PyBool(FALSE)]

\* A value each attribute accepts and does not trim away
PopulatedValue(a) ==
    CASE a \in {"align_ticks", "allow_decimals", "opposite", "reversed_stacks",
                "zoom_enabled", "crisp", "relative_x_value", "center_in_category",
                "color_by_point", "grouping"} -> PyBool(TRUE)
      [] a \in {"alternate_grid_color", "border_color", "median_color",
                "whisker_color", "line_color", "up_color"} -> GradientObj
      [] a = "breaks" -> PyList(<<PyObj("AxisBreak", {}, 1)>>)
      [] a = "plot_bands" -> PyList(<<PyObj("PlotBand", {}, 1)>>)
      [] a = "plot_lines" -> PyList(<<PyObj("PlotLine", {}, 1)>>)
      [] a = "categories" -> PyList(<<PyStr("a")>>)
      [] a = "date_time_label_formats" -> PyObj("DateTimeLabelFormats", {}, 1)
      [] a = "title" -> PyObj("AxisTitle", {}, 1)
      [] a = "cluster" -> PyObj("ClusterOptions", {}, 1)
      [] a = "data_grouping" -> PyObj("DataGroupingOptions", {}, 1)
      [] a = "partial_fill" -> PyObj("PartialFillOptions", {}, 1)
      [] a \in {"class_name", "color_key", "step", "edge_color", "border_dash_style",
                "box_dash_style", "median_dash_style", "stem_dash_style",
                "whisker_dash_style", "color_axis", "on_series"} -> PyStr("Dash")
      [] a = "colors" -> PyList(<<GradientObj>>)
      [] a = "whisker_length" -> PyStr("50%")
      [] OTHER -> PyInt(5)

\* The initializers of a fully populated node
PopulatedKwargs(cls) == [a \in Declared(cls) |-> PopulatedValue(a)]

\* A value each attribute refuses, and the exception it raises
InvalidValue(a) ==
    CASE a \in {"alternate_grid_color", "border_color", "median_color",
                "whisker_color", "line_color", "up_color"} -> PyInt(5)
      [] a \in {"box_dash_style", "median_dash_style", "stem_dash_style",
                "whisker_dash_style"} -> PyStr("NotARealStyle")
      [] a \in {"class_name", "edge_color", "on_series"} -> PyInt(5)
      [] a \in {"depth", "median_width", "vector_length"} -> PyStr("Dash")
      [] OTHER -> PyInt(-1)

\* Initializers with two invalid values, for pairs of attributes of the same
\* level and of two levels of the chain
InvalidPairs(cls) ==
    CASE cls = "NumericAxis" ->
           {{"alternate_grid_color", "linked_to"}, {"linked_to", "class_name"},
            {"pane", "alternate_grid_color"}}
      [] cls = "VennOptions" ->
           {{"animation_limit", "class_name"}, {"color_axis", "class_name"}}
      [] cls = "BaseBarOptions" ->
           {{"border_color", "border_radius"}, {"border_width", "class_name"}}
      [] cls = "BarOptions" ->
           {{"depth", "edge_color"}, {"edge_width", "border_color"},
            {"border_color", "border_radius"}}
      [] cls = "BoxPlotOptions" ->
           {{"box_dash_style", "median_width"}, {"whisker_width", "depth"},
            {"depth", "border_color"}}
      [] cls = "WaterfallOptions" ->
           {{"line_color", "depth"}, {"depth", "border_color"}}
      [] cls = "WindBarbOptions" ->
           {{"vector_length", "on_series"}, {"edge_color", "border_radius"}}
      [] cls = "XRangeOptions" ->
           {{"group_z_padding", "border_color"}, {"border_color", "border_radius"}}

TwoInvalid(cls) == {[a \in pair |-> InvalidValue(a)] : pair \in InvalidPairs(cls)}

\* Initializers with a key that no level of any chain declares
UnknownKwargs == [a \in {"offset", "unknown_key"} |-> PyInt(5)]

Initializers(cls) ==
    {NoMapping, PopulatedKwargs(cls), UnknownKwargs} \cup TwoInvalid(cls)
    \cup {[x \in {a} |-> v] : <<a, v>> \in
            {<<b, w>> \in Declared(cls) \X UNION {RawsFor(c) : c \in Declared(cls)} :
                w \in RawsFor(b)}}
    \cup (IF cls \in BarFamily THEN {ScenarioKwargs} ELSE {})

\* The wire mappings a caller supplies from outside
ScenarioWire ==
    [key \in {"pointPadding", "borderWidth", "colorByPoint"} |->
        CASE key = "pointPadding" -> PyFloat(1)
          [] key = "borderWidth" -> None
          [] key = "colorByPoint" -> PyBool(FALSE)]

SuppliedWires ==
    {ScenarioWire,
     [key \in {"plotBands"} |-> PyList(<<PyDict("PlotBand", {}, TRUE, 1)>>)],
     [key \in {"relativeXValue", "unknownKey"} |-> PyBool(FALSE)],
     [key \in {"colors", "whiskerWidth"} |->
        IF key = "colors" THEN PyList(<<GradientObj>>) ELSE PyInt(5)],
     [key \in {"fillColor", "medianWidth"} |->
        IF key = "fillColor" THEN PyStr("#ff0000") ELSE PyInt(5)]}

\* --------------------------------------------------------- the machine
\* node: the schema node the caller holds (cls "" when it holds none);
\* wire: the wire mapping the caller holds; err: what the last operation
\* raised; last: the last operation and its inputs; sets: setter calls made.

NoNode == [cls |-> "", f |-> NoMapping]
NoWire == [has |-> FALSE, m |-> NoMapping]

Op(op, cls, attr, raw, kw) ==
    [op |-> op, cls |-> cls, attr |-> attr, raw |-> raw, kw |-> kw]

Init ==
    /\ node = NoNode
    /\ wire = NoWire
    /\ err = OK
    /\ last = Op("init", "", "", None, NoMapping)
    /\ sets = 0

\* node = cls(**kwargs)
Construct ==
    \E cls \in Classes : \E kwargs \in Initializers(cls) :
        LET r == construct(cls, kwargs)
        IN  /\ node = NoNode
            /\ ~wire.has
            /\ node' = IF r.err = OK THEN [cls |-> cls, f |-> r.f] ELSE node
            /\ err' = r.err
            /\ last' = Op("construct", cls, "", None, kwargs)
            /\ UNCHANGED <<wire, sets>>

\* An assignment that also resets every other attribute of the node
SetAttr_resetting ==
    /\ node # NoNode
    /\ sets < MaxSets
    /\ \E a \in Declared(node.cls) : \E raw \in RawsFor(a) :
        LET r == setattr(node.cls, a, node.f[a], raw)
        IN  /\ node' = [node EXCEPT !.f = [b \in DOMAIN node.f |->
                                              IF b = a THEN r.val ELSE None]]
            /\ err' = r.err
            /\ last' = Op("set", node.cls, a, raw, NoMapping)
            /\ sets' = sets + 1
            /\ UNCHANGED wire

\* node.<a> = raw
SetAttr ==
    /\ node # NoNode
    /\ sets < MaxSets
    /\ \E a \in Declared(node.cls) : \E raw \in RawsFor(a) :
        LET r == setattr(node.cls, a, node.f[a], raw)
        IN  /\ node' = [node EXCEPT !.f[a] = r.val]
            /\ err' = r.err
            /\ last' = Op("set", node.cls, a, raw, NoMapping)
            /\ sets' = sets + 1
            /\ UNCHANGED wire

\* wire = node.to_dict()
ToDict ==
    /\ node # NoNode
    /\ LET r == to_dict(node.cls, node.f)
       IN  /\ wire' = IF r.err = OK THEN [has |-> TRUE, m |-> r.m] ELSE wire
           /\ err' = r.err
           /\ last' = Op("to_dict", node.cls, "", None, NoMapping)
           /\ UNCHANGED <<node, sets>>

\* The caller obtains a wire mapping from outside
SupplyWire ==
    \E m \in SuppliedWires :
        /\ node = NoNode
        /\ ~wire.has
        /\ wire' = [has |-> TRUE, m |-> m]
        /\ err' = OK
        /\ last' = Op("supply", "", "", None, m)
        /\ UNCHANGED <<node, sets>>

\* node = cls.from_dict(wire): the keys the class recognizes are popped from
\* the caller's mapping before the constructor runs
FromDict ==
    /\ wire.has
    /\ \E cls \in Classes :
        LET r == from_dict(cls, wire.m)
        IN  /\ node.cls \in {"", cls}
            /\ node' = IF r.err = OK THEN [cls |-> cls, f |-> r.f] ELSE node
            /\ wire' = [wire EXCEPT !.m = after_pops(cls, wire.m)]
            /\ err' = r.err
            /\ last' = Op("from_dict", cls, "", None, wire.m)
            /\ UNCHANGED sets

Next == Construct \/ SetAttr \/ ToDict \/ SupplyWire \/ FromDict

Spec == Init /\ [][Next]_vars

\* -------------------------------------------------------- properties

BoolAttrs ==
    {"align_ticks", "allow_decimals", "opposite", "reversed_stacks", "zoom_enabled",
     "crisp", "relative_x_value", "center_in_category", "color_by_point", "grouping"}
DashStyleAttrs ==
    {"box_dash_style", "median_dash_style", "stem_dash_style", "whisker_dash_style",
     "border_dash_style"}
ColorAttrs ==
    {"alternate_grid_color", "border_color", "median_color", "whisker_color",
     "line_color", "up_color"}
SequenceOfNodeAttrs == {"breaks", "plot_bands", "plot_lines"}

\* The last operation was the assignment <attribute> = raw on a live node
WasSet(a) == last.op = "set" /\ last.attr = a

\* C1: round trip. When a node is serialized with to_dict and the mapping is
\* read back with from_dict of the same class, reading succeeds and the node
\* read back has the same trimmed wire form as the node serialized.
C1_RoundTrip ==
    [][(/\ last.op = "to_dict" /\ err = OK
        /\ last'.op = "from_dict" /\ last'.cls = node.cls)
       => (/\ err' = OK
           /\ to_dict(node'.cls, node'.f) = to_dict(node.cls, node.f))]_vars

\* C2: a bar-family node read from the mapping {"pointPadding": 0.1,
\* "borderWidth": None, "colorByPoint": False} is built, and its to_dict is
\* exactly {"pointPadding": 0.1, "colorByPoint": False}.
ScenarioTrimmed ==
    [key \in {"pointPadding", "colorByPoint"} |->
        IF key = "pointPadding" THEN PyFloat(1) ELSE PyBool(FALSE)]

C2_BarScenario ==
    (/\ last.op = "from_dict"
     /\ last.cls \in {"BaseBarOptions", "BarOptions"}
     /\ last.kw = ScenarioWire)
    => (/\ err = OK
        /\ node.cls = last.cls
        /\ to_dict(node.cls, node.f) = [err |-> OK, m |-> ScenarioTrimmed])

\* C3: a boolean attribute assigned None holds null and assigned False holds
\* False; and after to_dict every boolean attribute holding False is in the
\* mapping, with value False, under the key from_dict reads it from.
C3_BooleanDistinction ==
    /\ \A a \in BoolAttrs :
          /\ (WasSet(a) /\ last.raw = None) => (err = OK /\ node.f[a] = None)
          /\ (WasSet(a) /\ last.raw = PyBool(FALSE))
                => (err = OK /\ node.f[a] = PyBool(FALSE))
    /\ last.op = "to_dict" =>
          \A p \in from_dict_keys(node.cls) :
              (p[1] \in BoolAttrs /\ node.f[p[1]] = PyBool(FALSE))
                  => (/\ err = OK
                      /\ p[2] \in DOMAIN wire.m
                      /\ wire.m[p[2]] = PyBool(FALSE))

\* A value an attribute holds before an assignment
Held == PyStr("held")

\* C4: an assignment that raises leaves the node exactly as it was; and each
\* setter a constructor runs, run on an attribute that holds a value, either
\* succeeds or raises with the attribute holding that value still.
C4_AtomicSetter ==
    [][/\ (last'.op = "set" /\ err' # OK) => node' = node
       /\ last'.op = "construct" =>
             \A a \in DOMAIN last'.kw :
                 LET r == setattr(last'.cls, a, Held, last'.kw[a])
                 IN  r.err # OK => r.val = Held]_vars

\* A failed assignment to an attribute that held a value, which it still holds
C4_Witness ==
    /\ last.op = "set" /\ err # OK
    /\ node.f[last.attr] # None

\* C5: a string outside the supported dash styles given to a dash-style
\* attribute, by assignment or by the constructor, raises; and every
\* dash-style attribute of a node holds null or a supported dash style.
C5_DashStyleEnum ==
    /\ \A a \in DashStyleAttrs :
          (WasSet(a) /\ last.raw = PyStr("NotARealStyle")) => err # OK
    /\ (last.op = "construct"
          /\ \E a \in DashStyleAttrs \cap DOMAIN last.kw :
                last.kw[a] = PyStr("NotARealStyle"))
       => err # OK
    /\ node # NoNode =>
          \A a \in DashStyleAttrs \cap Declared(node.cls) :
              \/ node.f[a] = None
              \/ node.f[a].t = "str" /\ node.f[a].s \in SUPPORTED_DASH_STYLE_VALUES

\* C6: a non-empty string with no gradient or pattern marker assigned to
\* alternate_grid_color is stored as it is, with no error.
C6_PlainColor ==
    (/\ WasSet("alternate_grid_color")
     /\ last.raw.t = "str" /\ last.raw.s # "" /\ last.raw.k = {})
    => (err = OK /\ node.f["alternate_grid_color"] = last.raw)

\* C7: a well-formed mapping with a gradient marker (linearGradient,
\* linear_gradient or radialGradient) assigned to alternate_grid_color is
\* stored as a Gradient.
C7_GradientMarker ==
    (/\ WasSet("alternate_grid_color")
     /\ last.raw.t = "dict" /\ last.raw.wf
     /\ last.raw.k \cap GradientMarkers # {})
    => (/\ err = OK
        /\ node.f["alternate_grid_color"].t = "obj"
        /\ node.f["alternate_grid_color"].s = "Gradient")

\* C8: a raw value with a gradient or pattern marker that does not parse is
\* stored as the plain string when it is a string, and raises, leaving the
\* node as it was, when it is a mapping.
C8_MalformedFallback ==
    [][(/\ last'.op = "set" /\ last'.attr = "alternate_grid_color"
        /\ last'.raw.t \in {"str", "dict"}
        /\ last'.raw.k # {} /\ ~last'.raw.wf)
       => IF last'.raw.t = "str"
          THEN err' = OK /\ node'.f["alternate_grid_color"] = last'.raw
          ELSE err' # OK /\ node' = node]_vars

\* A truthy value that is no string, mapping, Gradient or Pattern
Unresolvable(v) == ~Falsy(v) /\ v.t \in {"int", "float", "list"}

\* The attributes a class's constructor assigns itself, before it calls its
\* parent's constructor
OwnAttrs(cls) ==
    CASE cls = "NumericAxis" -> Range(NumericAxis_attrs)
      [] cls = "VennOptions" -> Range(VennOptions_attrs)
      [] cls = "BaseBarOptions" -> Range(BaseBarOptions_attrs)
      [] cls = "BarOptions" -> Range(BarOptions_attrs)
      [] cls = "BoxPlotOptions" -> Range(BoxPlotOptions_attrs)
      [] cls = "WaterfallOptions" -> Range(WaterfallOptions_attrs)
      [] cls = "WindBarbOptions" -> Range(WindBarbOptions_attrs)
      [] cls = "XRangeOptions" -> Range(XRangeOptions_attrs)
      [] OTHER -> {}

\* C9: an unresolvable value given to a color attribute, by assignment or by
\* the constructor of the class that declares it, raises the typed error
\* HighchartsValueError and the node is as it was.
C9_UnresolvableColor ==
    [][(\/ /\ last'.op = "set" /\ last'.attr \in ColorAttrs
           /\ Unresolvable(last'.raw)
        \/ /\ last'.op = "construct"
           /\ \E a \in ColorAttrs \cap DOMAIN last'.kw \cap OwnAttrs(last'.cls) :
                 Unresolvable(last'.kw[a]))
       => (err' = "HighchartsValueError" /\ node' = node)]_vars

\* The number 5 refused by alternate_grid_color, which keeps its Gradient
C9_Witness ==
    /\ WasSet("alternate_grid_color") /\ last.raw = PyInt(5)
    /\ err = "HighchartsValueError"
    /\ node.f["alternate_grid_color"] = GradientObj

\* What the attribute holds and what is raised when raw is assigned to a
\* sequence-of-node attribute that held old
Assigned(a, old, raw) == setattr("NumericAxis", a, old, raw)

\* C10: a bare item assigned to breaks, plot_bands or plot_lines gives what
\* assigning the one-element list of it gives, a one-element sequence when it
\* is accepted; and these attributes hold null or a sequence.
C10_ForceIterable ==
    /\ \A a \in SequenceOfNodeAttrs :
          (WasSet(a) /\ ~Falsy(last.raw) /\ last.raw.t # "list")
          => LET r == Assigned(a, node.f[a], PyList(<<last.raw>>))
             IN  /\ err = r.err
                 /\ err = OK => (node.f[a] = r.val /\ Len(node.f[a].items) = 1)
    /\ node.cls = "NumericAxis" =>
          \A a \in SequenceOfNodeAttrs : node.f[a].t \in {"None", "list"}

\* A bare PlotBand assigned to plot_bands, held as the list of it
C10_Witness ==
    /\ WasSet("plot_bands") /\ last.raw = PyObj("PlotBand", {}, 1)
    /\ err = OK
    /\ node.f["plot_bands"] = PyList(<<PyObj("PlotBand", {}, 1)>>)

\* The wire keys a class declares, its ancestors' included: the camelCase key
\* of each attribute of the chain
DeclaredWireKeys(cls) ==
    CASE cls = "NumericAxis" -> NumericAxis_from_dict_keys
      [] cls = "VennOptions" -> VennOptions_from_dict_keys
      [] cls = "BaseBarOptions" -> Parent_keys \cup BaseBarOptions_own_keys
      [] cls = "BarOptions" ->
           Parent_keys \cup BaseBarOptions_own_keys \cup BarOptions_own_keys
      [] cls = "BoxPlotOptions" ->
           Parent_keys \cup BaseBarOptions_own_keys \cup BarOptions_own_keys
             \cup BoxPlotOptions_own_keys
      [] cls = "WaterfallOptions" ->
           Parent_keys \cup BaseBarOptions_own_keys \cup BarOptions_own_keys
             \cup WaterfallOptions_own_keys
      [] cls = "WindBarbOptions" ->
           Parent_keys \cup BaseBarOptions_own_keys \cup BarOptions_own_keys
             \cup WindBarbOptions_own_keys
      [] cls = "XRangeOptions" ->
           Parent_keys \cup BaseBarOptions_own_keys \cup XRangeOptions_own_keys
      [] OTHER -> {}

KeysOf(T) == {p[2] : p \in T}
AttrsOf(T) == {p[1] : p \in T}

\* The attributes of an instance of cls whose setters were all given their
\* populated value
Populated(cls) ==
    [a \in Declared(cls) |-> setattr(cls, a, None, PopulatedValue(a)).val]

FullyPopulated(cls, f) == \A a \in Declared(cls) : ~Empty(WireVal(f[a]))

\* C11: to_dict of a fully populated node succeeds and its keys are exactly
\* the wire keys the class and its ancestors declare; so does to_dict of the
\* instance a constructor call with every attribute populated describes.
C11_InheritanceCompleteness ==
    /\ (last.op = "to_dict" /\ FullyPopulated(node.cls, node.f))
          => (err = OK /\ DOMAIN wire.m = KeysOf(DeclaredWireKeys(node.cls)))
    /\ (last.op = "construct" /\ last.kw = PopulatedKwargs(last.cls))
          => LET r == to_dict(last.cls, Populated(last.cls))
             IN  r.err = OK /\ DOMAIN r.m = KeysOf(DeclaredWireKeys(last.cls))

\* C12: the initializer mapping from_dict extracts has exactly the attributes
\* the class and its ancestors declare, each read from its declared wire key.
C12_FlattenedKeyTable ==
    last.op = "from_dict" =>
        LET kwargs == get_kwargs_from_dict(last.cls, last.kw)
        IN  /\ DOMAIN kwargs = Declared(last.cls)
            /\ \A p \in DeclaredWireKeys(last.cls) :
                  p[1] \in DOMAIN kwargs /\ kwargs[p[1]] = Get(last.kw, p[2])

\* Every attribute is null or trims to nothing
AllEmpty(cls, f) == \A a \in Declared(cls) : Empty(WireVal(f[a]))

\* C13: to_dict leaves the node as it was; on a node whose attributes are all
\* null or empty it returns the empty mapping; and to_dict called again on
\* the node returns the mapping the first call returned.
C13_EmptyAndIdempotent ==
    [][last'.op = "to_dict" =>
          /\ node' = node
          /\ AllEmpty(node.cls, node.f)
                => (err' = OK /\ wire'.has /\ wire'.m = NoMapping)
          /\ err' = OK
                => to_dict(node'.cls, node'.f) = [err |-> OK, m |-> wire'.m]]_vars

\* to_dict of a NumericAxis constructed with no initializers
C13_Witness ==
    /\ last.op = "to_dict" /\ err = OK
    /\ node.cls = "NumericAxis"
    /\ \A a \in Declared(node.cls) : node.f[a] = None
    /\ wire.has /\ wire.m = NoMapping

\* C14: no key of the mapping to_dict returns has a null, an empty string,
\* an empty collection or an empty nested mapping as its value, and no
\* sequence in it has an empty nested mapping as an element: a nested node
\* that trims to nothing takes its key with it.
C14_DeepTrimming ==
    (last.op = "to_dict" /\ err = OK) =>
        \A key \in DOMAIN wire.m :
            /\ ~Empty(wire.m[key])
            /\ wire.m[key].t # "obj"
            /\ \A i \in DOMAIN wire.m[key].items :
                  ~Empty(wire.m[key].items[i]) /\ wire.m[key].items[i].t # "obj"

\* A title that is an empty node gives no 'title' key
C14_Witness ==
    /\ last.op = "to_dict" /\ err = OK
    /\ node.cls = "NumericAxis"
    /\ node.f["title"] = PyObj("AxisTitle", {}, 0)
    /\ "title" \notin DOMAIN wire.m

\* Every initializer of a constructor call is accepted by its setter
AllValid(cls, kw) ==
    \A a \in Declared(cls) : setattr(cls, a, None, Get(kw, a)).err = OK

\* The attributes of an instance whose setters have stored the initializers
Validated(cls, kw) ==
    [a \in Declared(cls) |-> setattr(cls, a, None, Get(kw, a)).val]

\* C15: to_dict on a node raises nothing and returns a mapping; and so does
\* to_dict of an instance of any class whose attributes hold the validated
\* initializers of a constructor call.
C15_ToDictNeverFails ==
    /\ last.op = "to_dict" => (err = OK /\ wire.has)
    /\ (last.op = "construct" /\ AllValid(last.cls, last.kw))
          => to_dict(last.cls, Validated(last.cls, last.kw)).err = OK

\* The initializers the last construction was given
KwargsOfLast ==
    IF last.op = "from_dict" THEN get_kwargs_from_dict(last.cls, last.kw)
    ELSE last.kw

\* C16: a construction whose initializers are all valid succeeds; one that
\* succeeds returns a node of the class whose attributes hold the validated
\* initializers; and a constructor call that raises returns no node.
C16_AllOrNothing ==
    last.op \in {"construct", "from_dict"} =>
        /\ AllValid(last.cls, KwargsOfLast) => err = OK
        /\ err = OK => (/\ node.cls = last.cls
                        /\ AllValid(last.cls, KwargsOfLast)
                        /\ node.f = Validated(last.cls, KwargsOfLast))
        /\ (err # OK /\ last.op = "construct") => node = NoNode

\* C17: to_dict of a node with plot bands has them under the key 'plotBands',
\* the key from_dict reads, and has no key 'plotPands'.
C17_PlotBandsKey ==
    (/\ last.op = "to_dict" /\ err = OK
     /\ node.cls = "NumericAxis"
     /\ ~Empty(WireVal(node.f["plot_bands"])))
    => (/\ "plotBands" \in DOMAIN wire.m
        /\ wire.m["plotBands"] = WireVal(node.f["plot_bands"])
        /\ "plotPands" \notin DOMAIN wire.m)

\* C18: every key of the mapping to_dict returns is the wire key from which
\* from_dict reads an attribute, and its value is that attribute's; every
\* attribute that is not trimmed away is in the mapping under that key.
C18_KeyTableConsistency ==
    (last.op = "to_dict" /\ err = OK) =>
        /\ \A key \in DOMAIN wire.m :
              \E p \in from_dict_keys(node.cls) :
                  p[2] = key /\ wire.m[key] = WireVal(node.f[p[1]])
        /\ \A p \in from_dict_keys(node.cls) :
              (p[1] \in Declared(node.cls) /\ ~Empty(WireVal(node.f[p[1]])))
                  => p[2] \in DOMAIN wire.m

\* C19: from_dict leaves the mapping it was given as it was, and a second
\* from_dict of the class on that mapping gives what the first gave.
C19_FromDictPure ==
    last.op = "from_dict" =>
        /\ wire.m = last.kw
        /\ from_dict(last.cls, wire.m) = from_dict(last.cls, last.kw)

\* C20: after a construction with no initializers, every attribute the class
\* declares is null.
C20_NullDefaults ==
    (last.op = "construct" /\ last.kw = NoMapping /\ err = OK) =>
        /\ node.cls = last.cls
        /\ DOMAIN node.f = Declared(node.cls)
        /\ \A a \in Declared(node.cls) : node.f[a] = None

\* VennOptions(): relative_x_value, whose backing field starts as False, is
\* null
C20_Witness ==
    /\ last.op = "construct" /\ last.kw = NoMapping /\ err = OK
    /\ node.cls = "VennOptions"
    /\ node.f["relative_x_value"] = None

\* The attributes whose setter is validators.numeric or validators.integer
NumericAttrs ==
    {"linked_to", "pane", "min_range", "min_tick_interval", "offset",
     "animation_limit", "color_index", "brighten",
     "border_radius", "border_width", "group_padding", "max_point_width",
     "min_point_length", "point_padding", "point_range", "point_width",
     "depth", "edge_width", "group_z_padding",
     "median_width", "stem_width", "whisker_width",
     "vector_length", "x_offset", "y_offset"}

\* The mapping m has the number 0 under a wire key of attribute a
EmitsZero(m, cls, a) ==
    \E p \in from_dict_keys(cls) \cup NumericAxis_to_dict_keys
                \cup VennOptions_to_dict_keys :
        p[1] = a /\ p[2] \in DOMAIN m /\ m[p[2]] = PyInt(0)

\* C21: the number 0 assigned to a numeric attribute is stored as 0, not as
\* null; to_dict of a node has the key of every numeric attribute that holds
\* 0, with value 0; and so has to_dict of the instance a constructor call
\* giving 0 to a numeric attribute describes.
C21_ZeroIsNotAbsence ==
    /\ \A a \in NumericAttrs :
          (WasSet(a) /\ last.raw = PyInt(0)) => (err = OK /\ node.f[a] = PyInt(0))
    /\ last.op = "to_dict" =>
          \A a \in NumericAttrs \cap Declared(node.cls) :
              node.f[a] = PyInt(0) => (err = OK /\ EmitsZero(wire.m, node.cls, a))
    /\ last.op = "construct" =>
          \A a \in NumericAttrs \cap DOMAIN last.kw :
              last.kw[a] = PyInt(0) =>
                  LET f == Validated(last.cls, last.kw)
                      r == to_dict(last.cls, f)
                  IN  f[a] = PyInt(0) /\ r.err = OK /\ EmitsZero(r.m, last.cls, a)

\* C22: the whisker_length setter, as the BoxPlotOptions constructor runs it
\* and as it runs on an attribute that holds a value: a number >= 0 is stored
\* as that number, a string with '%' is stored unchanged, None stores null,
\* and a negative number raises with the value held before still held.
C22_WhiskerLengthForms ==
    (/\ last.op = "construct" /\ last.cls = "BoxPlotOptions"
     /\ "whisker_length" \in DOMAIN last.kw)
    => LET raw == last.kw["whisker_length"]
           r == setattr("BoxPlotOptions", "whisker_length", Held, raw)
       IN  /\ (raw.t \in {"int", "float"} /\ raw.n >= 0) => r = Ret(raw)
           /\ (raw.t = "str" /\ HasPercent(raw.s)) => r = Ret(raw)
           /\ raw = None => r = Ret(None)
           /\ (raw.t \in {"int", "float"} /\ raw.n < 0)
                 => (r.err # OK /\ r.val = Held)
           /\ (raw.t \in {"int", "float"} /\ raw.n >= 0)
                 => err \notin {"TypeError", "ValueError"}

\* C23: color_axis assigned None holds null, assigned False holds False,
\* assigned a non-empty string holds that string, assigned an integer >= 0
\* (0 included) holds that integer, and a negative integer raises; by
\* assignment and by the VennOptions constructor alike.
C23_ColorAxisForms ==
    /\ WasSet("color_axis") =>
          /\ last.raw = None => (err = OK /\ node.f["color_axis"] = None)
          /\ last.raw = PyBool(FALSE)
                => (err = OK /\ node.f["color_axis"] = PyBool(FALSE))
          /\ (last.raw.t = "str" /\ last.raw.s # "")
                => (err = OK /\ node.f["color_axis"] = last.raw)
          /\ (last.raw.t = "int" /\ last.raw.n >= 0)
                => (err = OK /\ node.f["color_axis"] = last.raw)
          /\ (last.raw.t = "int" /\ last.raw.n < 0) => err # OK
    /\ (/\ last.op = "construct" /\ last.cls = "VennOptions"
        /\ DOMAIN last.kw = {"color_axis"})
       => LET raw == last.kw["color_axis"]
          IN  /\ (raw.t = "int" /\ raw.n < 0) => (err # OK /\ node = NoNode)
              /\ (\/ raw \in {None, PyBool(FALSE)}
                  \/ raw.t = "str" /\ raw.s # ""
                  \/ raw.t = "int" /\ raw.n >= 0)
                    => (err = OK /\ node.f["color_axis"] = raw)

\* The order in which a constructor call reaches the attributes: the class's
\* own in the order of its __init__, then its parent's, up the chain
InitOrder(cls) ==
    CASE cls = "NumericAxis" -> NumericAxis_attrs \o Parent_attrs
      [] cls = "VennOptions" -> VennOptions_attrs \o Parent_attrs
      [] cls = "BaseBarOptions" -> BaseBarOptions_attrs \o Parent_attrs
      [] cls = "BarOptions" ->
           BarOptions_attrs \o BaseBarOptions_attrs \o Parent_attrs
      [] cls = "BoxPlotOptions" ->
           BoxPlotOptions_attrs \o BarOptions_attrs \o BaseBarOptions_attrs
             \o Parent_attrs
      [] cls = "WaterfallOptions" ->
           WaterfallOptions_attrs \o BarOptions_attrs \o BaseBarOptions_attrs
             \o Parent_attrs
      [] cls = "WindBarbOptions" ->
           WindBarbOptions_attrs \o BarOptions_attrs \o BaseBarOptions_attrs
             \o Parent_attrs
      [] cls = "XRangeOptions" ->
           XRangeOptions_attrs \o BaseBarOptions_attrs \o Parent_attrs
      [] OTHER -> <<>>

\* The positions of InitOrder whose initializer the setter refuses
Refused(cls, kw) ==
    {i \in DOMAIN InitOrder(cls) :
        setattr(cls, InitOrder(cls)[i], None, Get(kw, InitOrder(cls)[i])).err # OK}

\* C24: a constructor call whose initializers hold two or more invalid values
\* raises the exception of the setter of the earliest invalid attribute in
\* the order own attributes, then the parent's, up the chain.
C24_ErrorOrder ==
    (last.op = "construct" /\ Cardinality(Refused(last.cls, last.kw)) >= 2)
    => LET bad == Refused(last.cls, last.kw)
           a == InitOrder(last.cls)[CHOOSE i \in bad : \A j \in bad : i <= j]
       IN  /\ err = setattr(last.cls, a, None, Get(last.kw, a)).err
           /\ node = NoNode

\* C25: the key sets of the mapping literals of any two levels of a class's
\* chain are disjoint; and in the untrimmed mapping of a node every key of
\* the class's own literal has the value of the class's own attribute after
\* the parent's mapping was merged in.
C25_NoKeyCollision ==
    /\ last.op \in {"construct", "from_dict"} =>
          \A i, j \in DOMAIN Levels(last.cls) :
              i # j => KeysOf(Levels(last.cls)[i]) \cap KeysOf(Levels(last.cls)[j]) = {}
    /\ (last.op = "to_dict" /\ node.cls = "VennOptions") =>
          LET u == VennOptions_to_untrimmed_dict(node.f)
          IN  /\ u.err = OK
              /\ \A p \in Levels(node.cls)[1] : u.m[p[2]] = node.f[p[1]]
              /\ \A p \in Levels(node.cls)[2] : u.m[p[2]] = node.f[p[1]]

\* to_dict of a VennOptions node that holds a value at both levels of its
\* chain, each under its own key
C25_Witness ==
    /\ last.op = "to_dict" /\ err = OK
    /\ node.cls = "VennOptions"
    /\ node.f["class_name"] = PyStr("Dash") /\ node.f["color_key"] = PyStr("Dash")
    /\ {"className", "color_key"} \subseteq DOMAIN wire.m

\* The initializers of the last construction under the keys the class and
\* its ancestors declare
KnownKwargsOfLast ==
    [a \in DOMAIN KwargsOfLast \cap Declared(last.cls) |-> KwargsOfLast[a]]

\* C26: a construction given initializers under keys that no level of the
\* chain declares does what the construction without those keys does; when
\* the declared initializers are all valid it succeeds, and the node holds
\* the validated initializers.
C26_LayeredConsumption ==
    (/\ last.op \in {"construct", "from_dict"}
     /\ DOMAIN KwargsOfLast \ Declared(last.cls) # {})
    => /\ construct(last.cls, KwargsOfLast) = construct(last.cls, KnownKwargsOfLast)
       /\ AllValid(last.cls, KnownKwargsOfLast)
             => (/\ err = OK
                 /\ node.cls = last.cls
                 /\ node.f = Validated(last.cls, KnownKwargsOfLast))

\* An item of a colors sequence: a plain color string, or a Gradient or
\* Pattern given as an instance or as a well-formed mapping
PlainColorItem(v) == v.t = "str" /\ v.s # "" /\ v.k = {}
GradientOrPatternItem(v) ==
    /\ v.t \in {"obj", "dict"} /\ v.s \in {"Gradient", "Pattern"}
    /\ v.t = "dict" => v.wf

\* C27: the colors setter, as a bar-family constructor runs it: null or an
\* empty sequence stores null; a sequence of plain strings, Gradients and
\* Patterns is stored as a list of the same length in the same order, each
\* plain string unchanged and each Gradient or Pattern as an instance of its
\* class.
C27_ColorsMixedList ==
    (/\ last.op = "construct" /\ last.cls \in BarFamily
     /\ "colors" \in DOMAIN last.kw)
    => LET raw == last.kw["colors"]
           r == setattr(last.cls, "colors", Held, raw)
       IN  /\ (raw = None \/ raw = PyList(<<>>)) => r = Ret(None)
           /\ (/\ raw.t = "list" /\ raw.items # <<>>
               /\ \A i \in DOMAIN raw.items :
                     PlainColorItem(raw.items[i]) \/ GradientOrPatternItem(raw.items[i]))
              => /\ r.err = OK
                 /\ r.val.t = "list"
                 /\ Len(r.val.items) = Len(raw.items)
                 /\ \A i \in DOMAIN raw.items :
                       IF PlainColorItem(raw.items[i])
                       THEN r.val.items[i] = raw.items[i]
                       ELSE /\ r.val.items[i].t = "obj"
                            /\ r.val.items[i].s = raw.items[i].s

\* The attributes validated with minimum = 0, and those validated as numbers
\* with no minimum
Min0Attrs ==
    {"border_radius", "border_width", "group_padding", "max_point_width",
     "min_point_length", "point_padding", "point_width", "depth", "edge_width",
     "group_z_padding", "median_width", "stem_width", "whisker_width",
     "vector_length", "linked_to", "pane", "color_index"}
NoMinimumAttrs ==
    {"offset", "min_range", "x_offset", "y_offset", "point_range", "brighten"}

NonNegative(v) == v = None \/ (v.t \in {"int", "float"} /\ v.n >= 0)

\* C28: every attribute of a node validated with minimum 0 holds null or a
\* number >= 0, whatever was constructed and assigned, and the setter of such
\* an attribute run by a constructor leaves null or a number >= 0 in an
\* attribute that held one; an attribute validated with no minimum stores
\* the negative number it is given.
C28_NonNegativity ==
    /\ node # NoNode =>
          \A a \in Min0Attrs \cap Declared(node.cls) : NonNegative(node.f[a])
    /\ last.op = "construct" =>
          \A a \in DOMAIN last.kw \cap Declared(last.cls) :
              /\ a \in Min0Attrs =>
                    \A old \in {None, PyInt(0), PyInt(5)} :
                        NonNegative(setattr(last.cls, a, old, last.kw[a]).val)
              /\ (a \in NoMinimumAttrs /\ last.kw[a] = PyInt(-1)) =>
                    setattr(last.cls, a, None, last.kw[a]) = Ret(PyInt(-1))
    /\ \A a \in NoMinimumAttrs :
          (WasSet(a) /\ last.raw = PyInt(-1)) => (err = OK /\ node.f[a] = PyInt(-1))

\* linked_to holds 5 after the assignment of -1 to it was refused
C28_Witness ==
    /\ WasSet("linked_to") /\ last.raw = PyInt(-1)
    /\ err # OK
    /\ node.f["linked_to"] = PyInt(5)

C30_NormalizationIdempotent ==
    /\ (last.op = "set" /\ err = OK) =>
          LET v == node.f[last.attr]
          IN  setattr(node.cls, last.attr, v, v) = Ret(v)
    /\ last.op = "construct" =>
          \A a \in DOMAIN last.kw \cap Declared(last.cls) :
              LET r == setattr(last.cls, a, None, last.kw[a])
              IN  r.err = OK => setattr(last.cls, a, r.val, r.val) = Ret(r.val)

====
